---- MODULE Spec2Model ----
(***************************************************************************)
(* Model of mwaa/logging/config.py (Airflow 2.9.1 image): the module-level *)
(* construction of LOGGING_CONFIG from Airflow's DEFAULT_LOGGING_CONFIG    *)
(* and the MWAA__LOGGING__AIRFLOW_* environment variables.                 *)
(*                                                                         *)
(* Names (dictionary keys, sources, environment variable names) are TLA+   *)
(* strings.  Values of environment variables are sequences of one-letter   *)
(* strings, so that str.lower() is computed letter by letter.              *)
(* Python's nested dictionaries are objects: the model keeps them in a     *)
(* heap, and the two top-level dictionaries hold addresses into it.        *)
(***************************************************************************)
EXTENDS Integers, Sequences, FiniteSets, TLC

VARIABLES
    environ,                 \* os.environ: variable name -> value
    heap,                    \* address -> nested dict (key -> entry)
    DEFAULT_LOGGING_CONFIG,  \* top-level dict of Airflow: key -> address
    LOGGING_CONFIG,          \* top-level dict of this module: key -> address
    pc,                      \* position in the module body
    args,                    \* (log_group_arn, log_level, logging_enabled)
    comp,                    \* index of the for loop of _configure
    subprocess_name,         \* parameter of _configure_subprocesses_logging
    written,                 \* history: <<mapping, key>> entries assigned by the module
    consulted                \* history: variable names passed to os.environ.get

vars == <<environ, heap, DEFAULT_LOGGING_CONFIG, LOGGING_CONFIG, pc, args,
          comp, subprocess_name, written, consulted>>

----------------------------------------------------------------------------
(* Bound of the model: how many environment variables are set at most.     *)
MaxEnvVars == 3

----------------------------------------------------------------------------
(* Strings.                                                                *)

UpperCase == <<"A","B","C","D","E","F","G","H","I","J","K","L","M",
               "N","O","P","Q","R","S","T","U","V","W","X","Y","Z">>

LowerCase == <<"a","b","c","d","e","f","g","h","i","j","k","l","m",
               "n","o","p","q","r","s","t","u","v","w","x","y","z">>

\* A lower() that leaves its argument as it is.
lower_identity(s) == s

\* The lower-case letter of every upper-case letter.
LowerOf ==
    [c \in {UpperCase[k] : k \in 1..Len(UpperCase)} |->
        LowerCase[CHOOSE k \in 1..Len(UpperCase) : UpperCase[k] = c]]

\* str.lower(): every upper-case letter replaced, everything else kept.
lower(s) ==
    [i \in 1..Len(s) |-> IF s[i] \in DOMAIN LowerOf THEN LowerOf[s[i]] ELSE s[i]]

\* The strings the module passes to source.upper().
SourceNames == {"task", "dag_processing", "worker", "scheduler", "webserver"}

\* Names of variables that look like a source's but are named after a
\* <comp>_requirements subprocess.
RequirementsNames ==
    {"worker_requirements", "scheduler_requirements", "webserver_requirements"}

\* str.upper() on the names above.
upper(source) ==
    CASE source = "task"                   -> "TASK"
      [] source = "dag_processing"         -> "DAG_PROCESSING"
      [] source = "worker"                 -> "WORKER"
      [] source = "scheduler"              -> "SCHEDULER"
      [] source = "webserver"              -> "WEBSERVER"
      [] source = "worker_requirements"    -> "WORKER_REQUIREMENTS"
      [] source = "scheduler_requirements" -> "SCHEDULER_REQUIREMENTS"
      [] source = "webserver_requirements" -> "WEBSERVER_REQUIREMENTS"

\* logging.getLevelName(logging.INFO)
INFO == <<"I","N","F","O">>

\* Optional values: None, or a one-element tuple holding the value.
None == <<>>

----------------------------------------------------------------------------
(* The environment.                                                        *)

\* The three f-strings of _get_mwaa_logging_env_vars, for every name.
EnvVarNames ==
    [source \in SourceNames \cup RequirementsNames |->
        [LOG_GROUP_ARN |-> "MWAA__LOGGING__AIRFLOW_" \o upper(source) \o "_LOG_GROUP_ARN",
         LOG_LEVEL     |-> "MWAA__LOGGING__AIRFLOW_" \o upper(source) \o "_LOG_LEVEL",
         LOGS_ENABLED  |-> "MWAA__LOGGING__AIRFLOW_" \o upper(source) \o "_LOGS_ENABLED"]]

ArnVar(source)     == EnvVarNames[source].LOG_GROUP_ARN
LevelVar(source)   == EnvVarNames[source].LOG_LEVEL
EnabledVar(source) == EnvVarNames[source].LOGS_ENABLED

VarsOf(source) == {ArnVar(source), LevelVar(source), EnabledVar(source)}

\* Values the model gives a source's variables: an ARN and the empty string;
\* a level name in lower case; "true" in two spellings and "yes" (an explicit
\* "false" is what os.environ.get already returns for an unset variable).
ArnValues == { <<"a","r","n",":","A">>, <<>> }

LevelValues == { <<"d","e","b","u","g">> }

EnabledValues == { <<"t","r","u","e">>, <<"T","r","U","E">>, <<"y","e","s">> }

\* The variables the model lets the environment hold, with their values: the
\* three variables of every source, and the like-named variables of the
\* <comp>_requirements subprocesses.
EnvBindings ==
    UNION { ({ArnVar(s)} \X ArnValues) \cup ({LevelVar(s)} \X LevelValues)
            \cup ({EnabledVar(s)} \X EnabledValues) : s \in SourceNames }
    \cup
    UNION { { <<ArnVar(s), <<"a","r","n",":","R">> >>,
              <<LevelVar(s), <<"E","R","R","O","R">> >>,
              <<EnabledVar(s), <<"t","r","u","e">> >> } : s \in RequirementsNames }

\* All environments with at most n of those variables set.
RECURSIVE Environments(_)
Environments(n) ==
    IF n = 0 THEN { <<>> }
    ELSE LET E == Environments(n - 1)
         IN  E \cup { (b[1] :> b[2]) @@ e :
                        <<e, b>> \in { p \in E \X EnvBindings :
                                         p[2][1] \notin DOMAIN p[1] } }

\* os.environ.get(key, default), as an optional value.
environ_get(env, key, default) ==
    IF key \in DOMAIN env THEN <<env[key]>> ELSE default

----------------------------------------------------------------------------
(* What the module imports.                                                *)

\* The classes of mwaa.logging.cloudwatch_handlers.
TaskLogHandler ==
    [module |-> "mwaa.logging.cloudwatch_handlers", qualname |-> "TaskLogHandler"]
DagProcessorManagerLogHandler ==
    [module |-> "mwaa.logging.cloudwatch_handlers",
     qualname |-> "DagProcessorManagerLogHandler"]
DagProcessingLogHandler ==
    [module |-> "mwaa.logging.cloudwatch_handlers",
     qualname |-> "DagProcessingLogHandler"]
SubprocessLogHandler ==
    [module |-> "mwaa.logging.cloudwatch_handlers",
     qualname |-> "SubprocessLogHandler"]

\* Settings of airflow_local_settings, as the strings they evaluate to.
BASE_LOG_FOLDER == "~/airflow/logs"
DAG_PROCESSOR_MANAGER_LOG_LOCATION ==
    <<"~/airflow/logs", "dag_processor_manager", "dag_processor_manager.log">>
PROCESSOR_FILENAME_TEMPLATE == "{{ filename }}.log"

\* os.path.expanduser on a path that starts with "~".
expanduser(path) == IF path = BASE_LOG_FOLDER THEN "/usr/local/airflow/logs" ELSE path

\* os.path.basename on a path given by its components.
basename(path) == path[Len(path)]

\* The "handlers" mapping of Airflow's DEFAULT_LOGGING_CONFIG.
DefaultHandlers ==
    [console |->
        [class |-> "airflow.utils.log.logging_mixin.RedirectStdHandler",
         formatter |-> "airflow_coloured", stream |-> "sys.stdout",
         filters |-> <<"mask_secrets">>],
     task |->
        [class |-> "airflow.utils.log.file_task_handler.FileTaskHandler",
         formatter |-> "airflow", base_log_folder |-> expanduser(BASE_LOG_FOLDER),
         filters |-> <<"mask_secrets">>],
     processor |->
        [class |-> "airflow.utils.log.file_processor_handler.FileProcessorHandler",
         formatter |-> "airflow", base_log_folder |-> "/usr/local/airflow/logs/scheduler",
         filename_template |-> PROCESSOR_FILENAME_TEMPLATE,
         filters |-> <<"mask_secrets">>],
     processor_to_stdout |->
        [class |-> "airflow.utils.log.logging_mixin.RedirectStdHandler",
         formatter |-> "source_processor", stream |-> "sys.stdout",
         filters |-> <<"mask_secrets">>]]

\* The "loggers" mapping of Airflow's DEFAULT_LOGGING_CONFIG.
DefaultLoggers ==
    ("airflow.processor" :>
        [handlers |-> <<"processor">>, level |-> INFO, propagate |-> TRUE])
    @@ ("airflow.task" :>
        [handlers |-> <<"task">>, level |-> INFO, propagate |-> TRUE,
         filters |-> <<"mask_secrets">>])
    @@ ("flask_appbuilder" :>
        [handlers |-> <<"console">>, level |-> <<"W","A","R","N","I","N","G">>,
         propagate |-> TRUE])

\* Addresses of the two nested dictionaries of DEFAULT_LOGGING_CONFIG.
DefaultHandlersAddr == "default.handlers"
DefaultLoggersAddr == "default.loggers"

----------------------------------------------------------------------------
(* Helpers of the module.                                                  *)

\* _qualified_name(cls)
qualified_name(cls) == cls.module \o "." \o cls.qualname

\* A reading of the variables that takes every source's level from the
\* task's LOG_LEVEL variable.
get_mwaa_logging_env_vars_task_level(env, source) ==
    LET log_group_arn   == environ_get(env, ArnVar(source), None)
        log_level       == environ_get(env, LevelVar("task"), <<INFO>>)
        logging_enabled == environ_get(env, EnabledVar(source),
                                       << <<"f","a","l","s","e">> >>)
    IN  [log_group_arn   |-> log_group_arn,
         log_level       |-> log_level[1],
         logging_enabled |-> lower(logging_enabled[1]) = <<"t","r","u","e">>]

\* A reading of the variables whose default level is WARNING.
get_mwaa_logging_env_vars_warning(env, source) ==
    LET log_group_arn   == environ_get(env, ArnVar(source), None)
        log_level       == environ_get(env, LevelVar(source),
                                       << <<"W","A","R","N","I","N","G">> >>)
        logging_enabled == environ_get(env, EnabledVar(source),
                                       << <<"f","a","l","s","e">> >>)
    IN  [log_group_arn   |-> log_group_arn,
         log_level       |-> log_level[1],
         logging_enabled |-> lower(logging_enabled[1]) = <<"t","r","u","e">>]

\* A reading of the variables in which a missing LOG_GROUP_ARN is the empty
\* string instead of None.
get_mwaa_logging_env_vars_arn_default(env, source) ==
    LET log_group_arn   == environ_get(env, ArnVar(source), << <<>> >>)
        log_level       == environ_get(env, LevelVar(source), <<INFO>>)
        logging_enabled == environ_get(env, EnabledVar(source),
                                       << <<"f","a","l","s","e">> >>)
    IN  [log_group_arn   |-> log_group_arn,
         log_level       |-> log_level[1],
         logging_enabled |-> lower(logging_enabled[1]) = <<"t","r","u","e">>]

\* _get_mwaa_logging_env_vars(source), reading the environment env.
get_mwaa_logging_env_vars(env, source) ==
    LET log_group_arn   == environ_get(env, ArnVar(source), None)
        log_level       == environ_get(env, LevelVar(source), <<INFO>>)
        logging_enabled == environ_get(env, EnabledVar(source),
                                       << <<"f","a","l","s","e">> >>)
    IN  [log_group_arn   |-> log_group_arn,
         log_level       |-> log_level[1],
         logging_enabled |-> lower(logging_enabled[1]) = <<"t","r","u","e">>]

\* The entry assigned to LOGGING_CONFIG["handlers"]["task"].
TaskHandlerEntry(a) ==
    [class           |-> qualified_name(TaskLogHandler),
     formatter       |-> "airflow",
     filters         |-> <<"mask_secrets">>,
     base_log_folder |-> expanduser(BASE_LOG_FOLDER),
     log_group_arn   |-> a.log_group_arn[1],
     enabled         |-> a.logging_enabled]

\* A fresh logger entry, like the ones of the other loggers, in place of the
\* update.
TaskLoggerReplace(entry, a) ==
    [handlers |-> <<"task">>, level |-> a.log_level, propagate |-> FALSE]

\* An assignment of {"level": log_level} in place of the update.
TaskLoggerAssign(entry, a) == [level |-> a.log_level]

\* LOGGING_CONFIG["loggers"]["airflow.task"].update({"level": log_level})
TaskLoggerUpdate(entry, a) ==
    [k \in DOMAIN entry \cup {"level"} |->
        IF k = "level" THEN a.log_level ELSE entry[k]]

\* The entry assigned to LOGGING_CONFIG["handlers"]["processor_manager"].
ProcessorManagerHandlerEntry(a) ==
    [class         |-> qualified_name(DagProcessorManagerLogHandler),
     formatter     |-> "airflow",
     log_group_arn |-> a.log_group_arn[1],
     stream_name   |-> basename(DAG_PROCESSOR_MANAGER_LOG_LOCATION),
     enabled       |-> a.logging_enabled]

\* The entry assigned to LOGGING_CONFIG["loggers"]["airflow.processor_manager"].
ProcessorManagerLoggerEntry(a) ==
    [handlers |-> <<"processor_manager">>, level |-> a.log_level, propagate |-> FALSE]

\* The entry assigned to LOGGING_CONFIG["handlers"]["processor"].
ProcessorHandlerEntry(a) ==
    [class                |-> qualified_name(DagProcessingLogHandler),
     formatter            |-> "airflow",
     log_group_arn        |-> a.log_group_arn[1],
     stream_name_template |-> PROCESSOR_FILENAME_TEMPLATE,
     enabled              |-> a.logging_enabled]

\* A processor logger that lists the manager's handler.
ProcessorLoggerEntryOfManager(a) ==
    [handlers |-> <<"processor_manager">>, level |-> a.log_level, propagate |-> FALSE]

\* The entry assigned to LOGGING_CONFIG["loggers"]["airflow.processor"].
ProcessorLoggerEntry(a) ==
    [handlers |-> <<"processor">>, level |-> a.log_level, propagate |-> FALSE]

\* handler_name and logger_name of _configure_subprocesses_logging.
handler_name(name) == "mwaa_" \o name
logger_name(name) == "mwaa." \o name

\* The entry assigned to LOGGING_CONFIG["handlers"][handler_name].
SubprocessHandlerEntry(name, a) ==
    [class              |-> qualified_name(SubprocessLogHandler),
     formatter          |-> "airflow",
     filters            |-> <<"mask_secrets">>,
     log_group_arn      |-> a.log_group_arn[1],
     stream_name_prefix |-> name,
     subprocess_name    |-> name,
     enabled            |-> a.logging_enabled]

\* A subprocess logger that lists its own name in place of the handler's.
SubprocessLoggerEntryOwnName(name, a) ==
    [handlers |-> <<"mwaa." \o name>>, level |-> a.log_level, propagate |-> FALSE]

\* The entry assigned to LOGGING_CONFIG["loggers"][logger_name].
SubprocessLoggerEntry(name, a) ==
    [handlers |-> <<handler_name(name)>>, level |-> a.log_level, propagate |-> FALSE]

\* The list the for loop of _configure iterates over.
Components == <<"worker", "scheduler", "webserver">>

\* f"{comp}_requirements"
requirements(c) == c \o "_requirements"

\* d[key] = entry on the dictionary at address addr.
Store(h, addr, key, entry) == [h EXCEPT ![addr] = (key :> entry) @@ @]

----------------------------------------------------------------------------
(* The module body, statement by statement.                                *)

NoArgs == [log_group_arn |-> None, log_level |-> INFO, logging_enabled |-> FALSE]

Init ==
    /\ environ \in Environments(MaxEnvVars)
    /\ heap = (DefaultHandlersAddr :> DefaultHandlers)
              @@ (DefaultLoggersAddr :> DefaultLoggers)
    /\ DEFAULT_LOGGING_CONFIG =
           [handlers |-> DefaultHandlersAddr, loggers |-> DefaultLoggersAddr]
    /\ LOGGING_CONFIG = <<>>
    /\ pc = "L18"
    /\ args = NoArgs
    /\ comp = 1
    /\ subprocess_name = ""
    /\ written = {}
    /\ consulted = {}

\* LOGGING_CONFIG = {**DEFAULT_LOGGING_CONFIG}: a new top-level dictionary
\* whose values are the same objects as those of DEFAULT_LOGGING_CONFIG.
CopyDefault ==
    /\ pc = "L18"
    /\ LOGGING_CONFIG' = [k \in DOMAIN DEFAULT_LOGGING_CONFIG |->
                              DEFAULT_LOGGING_CONFIG[k]]
    /\ pc' = "L49"
    /\ UNCHANGED <<environ, heap, DEFAULT_LOGGING_CONFIG, args, comp,
                   subprocess_name, written, consulted>>

\* _configure_task_logging, lines 49-50.
TaskGetEnv ==
    /\ pc = "L49"
    /\ args' = get_mwaa_logging_env_vars(environ, "task")
    /\ consulted' = consulted \cup VarsOf("task")
    /\ pc' = IF args'.log_group_arn # None THEN "L52" ELSE "L68"
    /\ UNCHANGED <<environ, heap, DEFAULT_LOGGING_CONFIG, LOGGING_CONFIG, comp,
                   subprocess_name, written>>

\* _configure_task_logging, lines 52-59.
TaskHandler ==
    /\ pc = "L52"
    /\ heap' = Store(heap, LOGGING_CONFIG.handlers, "task", TaskHandlerEntry(args))
    /\ written' = written \cup {<<"handlers", "task">>}
    /\ pc' = "L60"
    /\ UNCHANGED <<environ, DEFAULT_LOGGING_CONFIG, LOGGING_CONFIG, args, comp,
                   subprocess_name, consulted>>

\* _configure_task_logging, lines 60-64.
TaskLogger ==
    /\ pc = "L60"
    /\ "airflow.task" \in DOMAIN heap[LOGGING_CONFIG.loggers]
    /\ heap' = Store(heap, LOGGING_CONFIG.loggers, "airflow.task",
                     TaskLoggerUpdate(heap[LOGGING_CONFIG.loggers]["airflow.task"], args))
    /\ written' = written \cup {<<"loggers", "airflow.task">>}
    /\ pc' = "L68"
    /\ UNCHANGED <<environ, DEFAULT_LOGGING_CONFIG, LOGGING_CONFIG, args, comp,
                   subprocess_name, consulted>>

\* _configure_dag_processing_logging, lines 68-71.
DagGetEnv ==
    /\ pc = "L68"
    /\ args' = get_mwaa_logging_env_vars(environ, "dag_processing")
    /\ consulted' = consulted \cup VarsOf("dag_processing")
    /\ pc' = IF args'.log_group_arn # None THEN "L73" ELSE "L130"
    /\ UNCHANGED <<environ, heap, DEFAULT_LOGGING_CONFIG, LOGGING_CONFIG, comp,
                   subprocess_name, written>>

\* _configure_dag_processing_logging, lines 73-79.
ProcessorManagerHandler ==
    /\ pc = "L73"
    /\ heap' = Store(heap, LOGGING_CONFIG.handlers, "processor_manager",
                     ProcessorManagerHandlerEntry(args))
    /\ written' = written \cup {<<"handlers", "processor_manager">>}
    /\ pc' = "L80"
    /\ UNCHANGED <<environ, DEFAULT_LOGGING_CONFIG, LOGGING_CONFIG, args, comp,
                   subprocess_name, consulted>>

\* _configure_dag_processing_logging, lines 80-84.
ProcessorManagerLogger ==
    /\ pc = "L80"
    /\ heap' = Store(heap, LOGGING_CONFIG.loggers, "airflow.processor_manager",
                     ProcessorManagerLoggerEntry(args))
    /\ written' = written \cup {<<"loggers", "airflow.processor_manager">>}
    /\ pc' = "L87"
    /\ UNCHANGED <<environ, DEFAULT_LOGGING_CONFIG, LOGGING_CONFIG, args, comp,
                   subprocess_name, consulted>>

\* _configure_dag_processing_logging, lines 87-93.
ProcessorHandler ==
    /\ pc = "L87"
    /\ heap' = Store(heap, LOGGING_CONFIG.handlers, "processor",
                     ProcessorHandlerEntry(args))
    /\ written' = written \cup {<<"handlers", "processor">>}
    /\ pc' = "L94"
    /\ UNCHANGED <<environ, DEFAULT_LOGGING_CONFIG, LOGGING_CONFIG, args, comp,
                   subprocess_name, consulted>>

\* _configure_dag_processing_logging, lines 94-98.
ProcessorLogger ==
    /\ pc = "L94"
    /\ heap' = Store(heap, LOGGING_CONFIG.loggers, "airflow.processor",
                     ProcessorLoggerEntry(args))
    /\ written' = written \cup {<<"loggers", "airflow.processor">>}
    /\ pc' = "L130"
    /\ UNCHANGED <<environ, DEFAULT_LOGGING_CONFIG, LOGGING_CONFIG, args, comp,
                   subprocess_name, consulted>>

\* _configure, lines 130-132: the next component, or the end of the loop.  With
\* no LOG_GROUP_ARN both calls of _configure_subprocesses_logging return at
\* line 109 without a change and the loop moves on; otherwise the first call
\* (subprocess_name = comp) goes on to line 110.
LoopGetEnv ==
    /\ pc = "L130"
    /\ IF comp <= Len(Components)
       THEN /\ args' = get_mwaa_logging_env_vars(environ, Components[comp])
            /\ consulted' = consulted \cup VarsOf(Components[comp])
            /\ IF args'.log_group_arn # None
               THEN /\ subprocess_name' = Components[comp]
                    /\ pc' = "L110"
                    /\ UNCHANGED comp
               ELSE /\ subprocess_name' = requirements(Components[comp])
                    /\ pc' = "L130"
                    /\ comp' = comp + 1
       ELSE /\ pc' = "done"
            /\ UNCHANGED <<args, consulted, comp, subprocess_name>>
    /\ UNCHANGED <<environ, heap, DEFAULT_LOGGING_CONFIG, LOGGING_CONFIG, written>>

\* A second call that reads the variables named after the requirements
\* subprocess.
CallRequirementsOwnVariables ==
    /\ pc = "L133"
    /\ subprocess_name' = requirements(Components[comp])
    /\ args' = get_mwaa_logging_env_vars(environ, requirements(Components[comp]))
    /\ consulted' = consulted \cup VarsOf(requirements(Components[comp]))
    /\ IF args'.log_group_arn # None
       THEN pc' = "L110" /\ UNCHANGED comp
       ELSE pc' = "L130" /\ comp' = comp + 1
    /\ UNCHANGED <<environ, heap, DEFAULT_LOGGING_CONFIG, LOGGING_CONFIG, written>>

\* _configure line 133 and _configure_subprocesses_logging lines 107-109: the
\* second call, for f"{comp}_requirements", with the same args.
CallRequirements ==
    /\ pc = "L133"
    /\ subprocess_name' = requirements(Components[comp])
    /\ IF args.log_group_arn # None
       THEN pc' = "L110" /\ UNCHANGED comp
       ELSE pc' = "L130" /\ comp' = comp + 1
    /\ UNCHANGED <<environ, heap, DEFAULT_LOGGING_CONFIG, LOGGING_CONFIG, args,
                   written, consulted>>

\* _configure_subprocesses_logging, lines 110-118.
SubprocessHandler ==
    /\ pc = "L110"
    /\ heap' = Store(heap, LOGGING_CONFIG.handlers, handler_name(subprocess_name),
                     SubprocessHandlerEntry(subprocess_name, args))
    /\ written' = written \cup {<<"handlers", handler_name(subprocess_name)>>}
    /\ pc' = "L120"
    /\ UNCHANGED <<environ, DEFAULT_LOGGING_CONFIG, LOGGING_CONFIG, args, comp,
                   subprocess_name, consulted>>

\* _configure_subprocesses_logging, lines 120-124, and the return to _configure.
SubprocessLogger ==
    /\ pc = "L120"
    /\ heap' = Store(heap, LOGGING_CONFIG.loggers, logger_name(subprocess_name),
                     SubprocessLoggerEntry(subprocess_name, args))
    /\ written' = written \cup {<<"loggers", logger_name(subprocess_name)>>}
    /\ IF subprocess_name = Components[comp]
       THEN pc' = "L133" /\ UNCHANGED comp
       ELSE pc' = "L130" /\ comp' = comp + 1
    /\ UNCHANGED <<environ, DEFAULT_LOGGING_CONFIG, LOGGING_CONFIG, args,
                   subprocess_name, consulted>>

Next ==
    \/ CopyDefault
    \/ TaskGetEnv
    \/ TaskHandler
    \/ TaskLogger
    \/ DagGetEnv
    \/ ProcessorManagerHandler
    \/ ProcessorManagerLogger
    \/ ProcessorHandler
    \/ ProcessorLogger
    \/ LoopGetEnv
    \/ CallRequirements
    \/ SubprocessHandler
    \/ SubprocessLogger

Spec == Init /\ [][Next]_vars

----------------------------------------------------------------------------
(* The functions of the module as a whole, on a configuration              *)
(* [handlers |-> ..., loggers |-> ...] and an environment.                 *)

\* _configure_task_logging()
configure_task_logging(cfg, env) ==
    LET a == get_mwaa_logging_env_vars(env, "task")
    IN  IF a.log_group_arn # None
        THEN [handlers |-> ("task" :> TaskHandlerEntry(a)) @@ cfg.handlers,
              loggers  |-> ("airflow.task" :>
                               TaskLoggerUpdate(cfg.loggers["airflow.task"], a))
                           @@ cfg.loggers]
        ELSE cfg

\* _configure_dag_processing_logging()
configure_dag_processing_logging(cfg, env) ==
    LET a == get_mwaa_logging_env_vars(env, "dag_processing")
    IN  IF a.log_group_arn # None
        THEN [handlers |-> ("processor" :> ProcessorHandlerEntry(a))
                           @@ ("processor_manager" :> ProcessorManagerHandlerEntry(a))
                           @@ cfg.handlers,
              loggers  |-> ("airflow.processor" :> ProcessorLoggerEntry(a))
                           @@ ("airflow.processor_manager" :>
                                  ProcessorManagerLoggerEntry(a))
                           @@ cfg.loggers]
        ELSE cfg

\* _configure_subprocesses_logging(subprocess_name, log_group_arn, log_level,
\* logging_enabled)
configure_subprocesses_logging(cfg, name, a) ==
    IF a.log_group_arn # None
    THEN [handlers |-> (handler_name(name) :> SubprocessHandlerEntry(name, a))
                       @@ cfg.handlers,
          loggers  |-> (logger_name(name) :> SubprocessLoggerEntry(name, a))
                       @@ cfg.loggers]
    ELSE cfg

\* The for loop of _configure, from component i on.
RECURSIVE configure_components(_, _, _)
configure_components(cfg, env, i) ==
    IF i > Len(Components) THEN cfg
    ELSE LET a == get_mwaa_logging_env_vars(env, Components[i])
             c1 == configure_subprocesses_logging(cfg, Components[i], a)
             c2 == configure_subprocesses_logging(c1, requirements(Components[i]), a)
         IN  configure_components(c2, env, i + 1)

\* _configure()
configure(cfg, env) ==
    configure_components(
        configure_dag_processing_logging(configure_task_logging(cfg, env), env),
        env, 1)

----------------------------------------------------------------------------
(* Properties.                                                             *)

\* LOGGING_CONFIG["handlers"] and LOGGING_CONFIG["loggers"], once line 18 ran.
Configured == pc # "L18"
Handlers == heap[LOGGING_CONFIG.handlers]
Loggers == heap[LOGGING_CONFIG.loggers]

\* The entries that belong to each source.
OwnHandlers ==
    [source \in SourceNames |->
        CASE source = "task"           -> {"task"}
          [] source = "dag_processing" -> {"processor_manager", "processor"}
          [] OTHER -> {"mwaa_" \o source, "mwaa_" \o source \o "_requirements"}]

OwnLoggers ==
    [source \in SourceNames |->
        CASE source = "task"           -> {"airflow.task"}
          [] source = "dag_processing" -> {"airflow.processor_manager",
                                           "airflow.processor"}
          [] OTHER -> {"mwaa." \o source, "mwaa." \o source \o "_requirements"}]

OwnEntries ==
    [source \in SourceNames |->
        ({"handlers"} \X OwnHandlers[source]) \cup ({"loggers"} \X OwnLoggers[source])]

HandlersOf(source) == OwnHandlers[source]
LoggersOf(source) == OwnLoggers[source]
EntriesOf(source) == OwnEntries[source]

\* An entry of a dictionary as an optional value.
EntryAt(d, k) == IF k \in DOMAIN d THEN <<d[k]>> ELSE <<>>

ArnSet(source) == ArnVar(source) \in DOMAIN environ

\* v is "true" up to the case of its letters.
IsTrueIgnoringCase(v) ==
    /\ Len(v) = Len(<<"t","r","u","e">>)
    /\ v[1] \in {"t", "T"}
    /\ v[2] \in {"r", "R"}
    /\ v[3] \in {"u", "U"}
    /\ v[4] \in {"e", "E"}

\* What the LOGS_ENABLED and LOG_LEVEL variables of a source ask for.
EnabledAsked(source) ==
    /\ EnabledVar(source) \in DOMAIN environ
    /\ IsTrueIgnoringCase(environ[EnabledVar(source)])

LevelAsked(source) ==
    IF LevelVar(source) \in DOMAIN environ THEN environ[LevelVar(source)]
    ELSE <<"I","N","F","O">>

\* C1: a source's handler and logger entries are registered if and only if
\* its LOG_GROUP_ARN variable is set; when set, every handler of the source
\* carries the variable's value as log_group_arn; when unset, none of the
\* source's entries is ever added or changed, whatever its other variables.
C1_RegisteredIffArnSet ==
    \A s \in SourceNames :
        /\ pc = "done" =>
              /\ ArnSet(s) <=> EntriesOf(s) \subseteq written
              /\ ArnSet(s) =>
                    \A h \in HandlersOf(s) :
                        /\ h \in DOMAIN Handlers
                        /\ Handlers[h].log_group_arn = environ[ArnVar(s)]
        /\ (Configured /\ ~ArnSet(s)) =>
              /\ EntriesOf(s) \cap written = {}
              /\ \A h \in HandlersOf(s) :
                    EntryAt(Handlers, h) = EntryAt(DefaultHandlers, h)
              /\ \A l \in LoggersOf(s) :
                    EntryAt(Loggers, l) = EntryAt(DefaultLoggers, l)

\* C1's case: one source registered with its ARN while another source, whose
\* ARN is unset but whose other two variables are set, is left alone.
C1_Witness ==
    /\ pc = "done"
    /\ \E s, t \in SourceNames :
          /\ ArnSet(s) /\ EntriesOf(s) \subseteq written
          /\ ~ArnSet(t)
          /\ LevelVar(t) \in DOMAIN environ
          /\ EnabledVar(t) \in DOMAIN environ

\* C2: every handler the module registered for a source has "enabled" true
\* exactly when the source's LOGS_ENABLED variable is set to "true" in any
\* letter case; a false flag does not keep the entries from being registered.
C2_EnabledFlag ==
    \A s \in SourceNames :
        /\ Configured =>
              \A h \in HandlersOf(s) :
                  <<"handlers", h>> \in written =>
                      Handlers[h].enabled = EnabledAsked(s)
        /\ (pc = "done" /\ ArnSet(s) /\ ~EnabledAsked(s)) =>
              /\ EntriesOf(s) \subseteq written
              /\ \A h \in HandlersOf(s) : Handlers[h].enabled = FALSE

\* C2's case: a handler enabled by a mixed-case "TrUE", and another source
\* registered although its flag is false.
C2_Witness ==
    /\ pc = "done"
    /\ \E s, t \in SourceNames :
          /\ ArnSet(s) /\ EnabledVar(s) \in DOMAIN environ
          /\ environ[EnabledVar(s)] = <<"T","r","U","E">>
          /\ \A h \in HandlersOf(s) : Handlers[h].enabled = TRUE
          /\ ArnSet(t) /\ ~EnabledAsked(t)
          /\ EntriesOf(t) \subseteq written

\* C3: every handler entry the module wrote has a class, a formatter, a
\* log_group_arn and an enabled flag, and every logger entry it wrote or
\* updated has a handlers list, a level and a propagate flag.
C3_EntryShape ==
    Configured =>
        /\ \A h \in DOMAIN Handlers :
              <<"handlers", h>> \in written =>
                  {"class", "formatter", "log_group_arn", "enabled"}
                      \subseteq DOMAIN Handlers[h]
        /\ \A l \in DOMAIN Loggers :
              <<"loggers", l>> \in written =>
                  {"handlers", "level", "propagate"} \subseteq DOMAIN Loggers[l]

\* C3's case: the updated airflow.task logger and a written subprocess logger
\* are both present at the end.
C3_Witness ==
    /\ pc = "done"
    /\ <<"loggers", "airflow.task">> \in written
    /\ <<"handlers", "task">> \in written
    /\ \E c \in {"worker", "scheduler", "webserver"} :
          <<"loggers", "mwaa." \o c>> \in written

\* The default configuration as a value, and an environment cut down to some
\* of its variables.
DefaultCfg == [handlers |-> DefaultHandlers, loggers |-> DefaultLoggers]
Restrict(env, names) == [v \in DOMAIN env \cap names |-> env[v]]

\* C4: the final LOGGING_CONFIG is the function configure of the default
\* configuration and the environment, and the entries of a source are the
\* ones that function yields when every variable of every other source is
\* removed from the environment: they depend on the source's own three
\* variables only, so changing another source's variables changes none.
C4_FunctionOfEnvironment ==
    pc = "done" =>
        /\ [handlers |-> Handlers, loggers |-> Loggers]
               = configure(DefaultCfg, environ)
        /\ \A s \in SourceNames :
              LET alone == configure(DefaultCfg, Restrict(environ, VarsOf(s)))
              IN  /\ \A h \in HandlersOf(s) :
                        EntryAt(Handlers, h) = EntryAt(alone.handlers, h)
                  /\ \A l \in LoggersOf(s) :
                        EntryAt(Loggers, l) = EntryAt(alone.loggers, l)

\* C4's case: two sources are registered and the second one's level is set,
\* so that the environment holds variables of a source other than the first.
C4_Witness ==
    /\ pc = "done"
    /\ \E s, t \in SourceNames :
          /\ s # t
          /\ ArnSet(s) /\ EntriesOf(s) \subseteq written
          /\ ArnSet(t) /\ LevelVar(t) \in DOMAIN environ

\* C5: every logger the module wrote for a source has the value of the
\* source's LOG_LEVEL variable as its level, letter for letter, or "INFO" when
\* the variable is unset; no handler of the source carries a level.
C5_LoggerLevel ==
    Configured =>
        \A s \in SourceNames :
            /\ \A l \in LoggersOf(s) :
                  <<"loggers", l>> \in written => Loggers[l].level = LevelAsked(s)
            /\ \A h \in HandlersOf(s) :
                  <<"handlers", h>> \in written => "level" \notin DOMAIN Handlers[h]
            /\ (pc = "done" /\ ArnSet(s)) => EntriesOf(s) \subseteq written

\* C5's case: one registered source with a lower-case level, another with the
\* variable unset.
C5_Witness ==
    /\ pc = "done"
    /\ \E s, t \in SourceNames :
          /\ ArnSet(s) /\ LevelVar(s) \in DOMAIN environ
          /\ \A l \in LoggersOf(s) : Loggers[l].level = <<"d","e","b","u","g">>
          /\ ArnSet(t) /\ LevelVar(t) \notin DOMAIN environ
          /\ \A l \in LoggersOf(t) : Loggers[l].level = <<"I","N","F","O">>

\* Positions after _configure_dag_processing_logging has returned.
AfterDagProcessing == pc \in {"L130", "L133", "L110", "L120", "done"}

\* C6: once _configure_dag_processing_logging has returned, the module has
\* written all four of handlers processor_manager and processor and loggers
\* airflow.processor_manager and airflow.processor, or none of them; when
\* written, the handlers agree on log_group_arn and enabled, the loggers on
\* level, each logger lists exactly its own handler and does not propagate.
C6_DagProcessingTogether ==
    AfterDagProcessing =>
        /\ \/ EntriesOf("dag_processing") \subseteq written
           \/ EntriesOf("dag_processing") \cap written = {}
        /\ EntriesOf("dag_processing") \subseteq written =>
              /\ Handlers["processor_manager"].log_group_arn
                    = Handlers["processor"].log_group_arn
              /\ Handlers["processor_manager"].enabled = Handlers["processor"].enabled
              /\ Loggers["airflow.processor_manager"].level
                    = Loggers["airflow.processor"].level
              /\ Loggers["airflow.processor_manager"].handlers = <<"processor_manager">>
              /\ Loggers["airflow.processor"].handlers = <<"processor">>
              /\ Loggers["airflow.processor_manager"].propagate = FALSE
              /\ Loggers["airflow.processor"].propagate = FALSE

\* C6's case: the function has just returned after writing the four entries.
C6_Witness ==
    /\ pc = "L130" /\ comp = 1
    /\ EntriesOf("dag_processing") \subseteq written
    /\ Handlers["processor"].enabled = TRUE

\* The variables named after the <comp>_requirements subprocesses.
RequirementsVars == UNION { VarsOf(r) : r \in RequirementsNames }

\* C7: at the end, for each component, the entries of the component and of its
\* requirements subprocess are all present or all absent; when present both
\* handlers carry the component's own ARN and flag, both loggers its own
\* level, each logger lists exactly the handler of its subprocess and does not
\* propagate, and each handler names its own subprocess.  Only variables of
\* the five sources are ever read, none named after <comp>_requirements.
C7_ComponentAndRequirements ==
    /\ consulted \cap RequirementsVars = {}
    /\ consulted \subseteq UNION { VarsOf(s) : s \in SourceNames }
    /\ pc = "done" =>
          \A c \in {"worker", "scheduler", "webserver"} :
              \/ /\ EntriesOf(c) \cap written = {}
                 /\ HandlersOf(c) \cap DOMAIN Handlers = {}
                 /\ LoggersOf(c) \cap DOMAIN Loggers = {}
              \/ /\ EntriesOf(c) \subseteq written
                 /\ \A sub \in {c, c \o "_requirements"} :
                       /\ Handlers["mwaa_" \o sub].log_group_arn = environ[ArnVar(c)]
                       /\ Handlers["mwaa_" \o sub].enabled = EnabledAsked(c)
                       /\ Handlers["mwaa_" \o sub].stream_name_prefix = sub
                       /\ Handlers["mwaa_" \o sub].subprocess_name = sub
                       /\ Loggers["mwaa." \o sub] =
                             [handlers |-> <<"mwaa_" \o sub>>,
                              level |-> LevelAsked(c), propagate |-> FALSE]

\* C7's case: a component is registered while the variable named after its
\* requirements subprocess holds another ARN.
C7_Witness ==
    /\ pc = "done"
    /\ \E c \in {"worker", "scheduler", "webserver"} :
          /\ ArnSet(c)
          /\ ArnVar(c \o "_requirements") \in DOMAIN environ
          /\ environ[ArnVar(c \o "_requirements")] # environ[ArnVar(c)]
          /\ EntriesOf(c) \subseteq written

\* C8: when the task ARN is set, at the return of _configure_task_logging the
\* task handler is the new CloudWatch entry, the airflow.task logger differs
\* from the default one in its level at most, and every other handler and
\* logger entry is the default one.
C8_TaskLoggingFrame ==
    (pc = "L68" /\ ArnSet("task")) =>
        /\ written = {<<"handlers", "task">>, <<"loggers", "airflow.task">>}
        /\ DOMAIN Handlers = DOMAIN DefaultHandlers
        /\ DOMAIN Loggers = DOMAIN DefaultLoggers
        /\ \A h \in DOMAIN Handlers \ {"task"} : Handlers[h] = DefaultHandlers[h]
        /\ \A l \in DOMAIN Loggers \ {"airflow.task"} : Loggers[l] = DefaultLoggers[l]
        /\ DOMAIN Handlers["task"] = {"class", "formatter", "filters",
                                      "base_log_folder", "log_group_arn", "enabled"}
        /\ Handlers["task"].class = "mwaa.logging.cloudwatch_handlers.TaskLogHandler"
        /\ DOMAIN Loggers["airflow.task"] = DOMAIN DefaultLoggers["airflow.task"]
        /\ \A k \in DOMAIN Loggers["airflow.task"] \ {"level"} :
              Loggers["airflow.task"][k] = DefaultLoggers["airflow.task"][k]

\* C8's case: the function has returned after changing the level.
C8_Witness ==
    /\ pc = "L68" /\ ArnSet("task")
    /\ Loggers["airflow.task"].level = <<"d","e","b","u","g">>
    /\ Loggers["airflow.task"].level # DefaultLoggers["airflow.task"].level

\* C9: in every state of the setup sequence, every handler named by a logger
\* entry the module wrote is a key of LOGGING_CONFIG["handlers"], and was put
\* there by the module before the logger was.
C9_ReferentialIntegrity ==
    Configured =>
        \A l \in DOMAIN Loggers :
            <<"loggers", l>> \in written =>
                \A i \in 1..Len(Loggers[l].handlers) :
                    /\ Loggers[l].handlers[i] \in DOMAIN Handlers
                    /\ <<"handlers", Loggers[l].handlers[i]>> \in written

\* C9's case: an intermediate state, between the two halves of a component.
C9_Witness ==
    /\ pc = "L120"
    /\ <<"loggers", "airflow.processor_manager">> \in written
    /\ <<"loggers", "mwaa.worker">> \in written
    /\ <<"loggers", "mwaa.worker_requirements">> \notin written

====
